---- MODULE Spec2Model ----
(***************************************************************************)
(* Model of src/src/BehavioralPatterns/Memento.ts:                         *)
(*   - Document / DocumentMemento / UndoRedoManager (memento pattern)      *)
(*   - RetryStrategy variants, ApiClient.request and fetchWithRetry        *)
(* lineSpacing is a fractional number in the source (1.5, 2); it is kept   *)
(* here in tenths (15, 20).                                                *)
(***************************************************************************)
EXTENDS Integers, Sequences, FiniteSets, TLC

VARIABLES doc, undoStack, redoStack, checkpoints, now, last, cpDoc, cpLog, steps,
          script, rx, aborted, rx2, probe, hook

\* ------------------------------------------------------------------------
\* Bounds and input sets
\* ------------------------------------------------------------------------
MaxSteps == 5
MaxK == 4
MaxRetries == 3
MaxAttempt == 5
MaxExecutes == 2

Contents == {"A", "B"}
FontSizes == {14}
LineSpacings == {20}
FontFamilies == {"Georgia"}
Names == {"v1", "v2"}
ScriptContents == <<"A", "B", "C", "D", "E", "F">>
Delays == {200, 1000}
\* the values Date.now() returns, in milliseconds after construction
Instants == {0, 1}

\* ------------------------------------------------------------------------
\* Document and DocumentMemento
\* ------------------------------------------------------------------------
InitialDocument ==
  [content |-> "", fontSize |-> 12, lineSpacing |-> 15, fontFamily |-> "Arial"]

setText(d, content) == [d EXCEPT !.content = content]
setFontSize(d, size) == [d EXCEPT !.fontSize = size]
setLineSpacing(d, spacing) == [d EXCEPT !.lineSpacing = spacing]
setFontFamily(d, family) == [d EXCEPT !.fontFamily = family]

\* new DocumentMemento(state): a copy of the four fields, stamped Date.now()
DocumentMemento(state, t) ==
  [state |-> [content |-> state.content, fontSize |-> state.fontSize,
              lineSpacing |-> state.lineSpacing, fontFamily |-> state.fontFamily],
   timestamp |-> t]

\* a createMemento that snapshots a blank document
createMemento_Blank(d, t) == DocumentMemento(InitialDocument, t)
createMemento(d, t) == DocumentMemento(d, t)

\* restoreFromMemento that forgets one field
restoreFromMemento_SkipsFontFamily(d, memento) ==
  [d EXCEPT !.content = memento.state.content,
            !.fontSize = memento.state.fontSize,
            !.lineSpacing = memento.state.lineSpacing]

restoreFromMemento(d, memento) ==
  [d EXCEPT !.content = memento.state.content,
            !.fontSize = memento.state.fontSize,
            !.lineSpacing = memento.state.lineSpacing,
            !.fontFamily = memento.state.fontFamily]

\* ------------------------------------------------------------------------
\* Array and Map helpers
\* ------------------------------------------------------------------------
Front(s) == SubSeq(s, 1, Len(s) - 1)
Top(s) == s[Len(s)]

\* Map<string, DocumentMemento> as the sequence of its entries in insertion
\* order (the iteration order of a JavaScript Map)
MapHas(m, name) == \E i \in 1..Len(m) : m[i].name = name
MapIndex(m, name) == CHOOSE i \in 1..Len(m) : m[i].name = name
\* a lookup that ignores the key
MapGet_First(m, name) == m[1].memento
MapGet(m, name) == m[MapIndex(m, name)].memento
\* a set that never replaces
MapSet_AlwaysAppends(m, name, memento) ==
  Append(m, [name |-> name, memento |-> memento])
MapSet(m, name, memento) ==
  IF MapHas(m, name)
    THEN [m EXCEPT ![MapIndex(m, name)].memento = memento]
    ELSE Append(m, [name |-> name, memento |-> memento])
\* a delete that also drops the entries inserted after the one deleted
MapDelete_DropsLater(m, name) ==
  IF MapHas(m, name) THEN SubSeq(m, 1, MapIndex(m, name) - 1) ELSE m
MapDelete(m, name) == SelectSeq(m, LAMBDA e : e.name # name)
MapKeys(m) == [i \in 1..Len(m) |-> m[i].name]

\* ------------------------------------------------------------------------
\* UndoRedoManager methods as functions of (document, undoStack, redoStack,
\* checkpoints, Date.now()) giving the state after the call and its result
\* ("true", "false", or "void" for a method that returns nothing)
\* ------------------------------------------------------------------------
Result(d, u, r, c, ret) ==
  [doc |-> d, undoStack |-> u, redoStack |-> r, checkpoints |-> c, ret |-> ret]

\* saveState that keeps the redo sequence
saveState_KeepsRedo(d, u, r, c, t) ==
  Result(d, Append(u, createMemento(d, t)), r, c, "void")

saveState(d, u, r, c, t) ==
  Result(d, Append(u, createMemento(d, t)), <<>>, c, "void")

\* undo that checks for the empty sequence only after pushing onto redo
undo_LateEmptyCheck(d, u, r, c, t) ==
  IF Len(u) = 0
    THEN Result(d, u, Append(r, createMemento(d, t)), c, "false")
    ELSE Result(restoreFromMemento(d, Top(u)), Front(u),
                Append(r, createMemento(d, t)), c, "true")

undo(d, u, r, c, t) ==
  IF Len(u) = 0
    THEN Result(d, u, r, c, "false")
    ELSE Result(restoreFromMemento(d, Top(u)), Front(u),
                Append(r, createMemento(d, t)), c, "true")

\* redo that does not push the current state onto undo
redo_NoUndoPush(d, u, r, c, t) ==
  IF Len(r) = 0
    THEN Result(d, u, r, c, "false")
    ELSE Result(restoreFromMemento(d, Top(r)), u, Front(r), c, "true")

redo(d, u, r, c, t) ==
  IF Len(r) = 0
    THEN Result(d, u, r, c, "false")
    ELSE Result(restoreFromMemento(d, Top(r)),
                Append(u, createMemento(d, t)), Front(r), c, "true")

createCheckpoint(name, d, u, r, c, t) ==
  Result(d, u, r, MapSet(c, name, createMemento(d, t)), "void")

\* restoreCheckpoint that clears the redo sequence before the lookup
restoreCheckpoint_ClearsRedoFirst(name, d, u, r, c, t) ==
  IF ~MapHas(c, name)
    THEN Result(d, u, <<>>, c, "false")
    ELSE Result(restoreFromMemento(d, MapGet(c, name)),
                Append(u, createMemento(d, t)), <<>>, c, "true")

restoreCheckpoint(name, d, u, r, c, t) ==
  IF ~MapHas(c, name)
    THEN Result(d, u, r, c, "false")
    ELSE Result(restoreFromMemento(d, MapGet(c, name)),
                Append(u, createMemento(d, t)), <<>>, c, "true")

listCheckpoints(c) == MapKeys(c)

deleteCheckpoint(name, d, u, r, c) ==
  Result(d, u, r, MapDelete(c, name), IF MapHas(c, name) THEN "true" ELSE "false")

clearHistory(d, u, r, c) == Result(d, <<>>, <<>>, <<>>, "void")

\* ------------------------------------------------------------------------
\* RetryStrategy and its three implementations
\* ------------------------------------------------------------------------
FailFastStrategy == [kind |-> "failFast", maxRetries |-> 0, delay |-> 0]
\* a constructor that stores one retry more than it was given
FixedRetryStrategy_ExtraRetry(maxRetries, delayMs) ==
  [kind |-> "fixed", maxRetries |-> maxRetries + 1, delay |-> delayMs]

FixedRetryStrategy(maxRetries, delayMs) ==
  [kind |-> "fixed", maxRetries |-> maxRetries, delay |-> delayMs]
ExponentialBackoffStrategy(maxRetries, baseDelay) ==
  [kind |-> "exponential", maxRetries |-> maxRetries, delay |-> baseDelay]

\* shouldRetry with an off-by-one comparison
shouldRetry_OffByOne(strategy, error, attempt) ==
  CASE strategy.kind = "failFast" -> FALSE
    [] strategy.kind = "fixed" -> attempt <= strategy.maxRetries
    [] strategy.kind = "exponential" -> attempt <= strategy.maxRetries

shouldRetry(strategy, error, attempt) ==
  CASE strategy.kind = "failFast" -> FALSE
    [] strategy.kind = "fixed" -> attempt < strategy.maxRetries
    [] strategy.kind = "exponential" -> attempt < strategy.maxRetries

\* an exponential delay that grows by baseDelay per attempt
getDelay_Linear(strategy, attempt) ==
  CASE strategy.kind = "failFast" -> 0
    [] strategy.kind = "fixed" -> strategy.delay
    [] strategy.kind = "exponential" -> strategy.delay * (attempt + 1)

getDelay(strategy, attempt) ==
  CASE strategy.kind = "failFast" -> 0
    [] strategy.kind = "fixed" -> strategy.delay
    [] strategy.kind = "exponential" -> strategy.delay * (2 ^ attempt)

\* ------------------------------------------------------------------------
\* One execution of ApiClient.request (wrapper "request") or of the closure
\* fetchWithRetry returns (wrapper "fetchWithRetry").
\*   pc      "idle" before the call, "fn" / "fetch" / "json" / "wait" while
\*           suspended at the await of that promise, "done" when settled
\*   settled state of the awaited promise; perr its rejection reason
\*   calls, attempts, waits, fails: the invocations started so far, the value
\*           of attempt at each, the delays waited, the failed invocations
\*   asked   the attempt numbers the strategy was consulted with
\*   via     how the execution ended: "return", "signal" (one of the three
\*           exits taken because signal.aborted), "policy" (no retry)
\* ------------------------------------------------------------------------
AbortError == [kind |-> "AbortError", call |-> 0]
NoError == [kind |-> "none", call |-> 0]
\* the error the n-th invocation fails with
OpError(n) == [kind |-> "Error", call |-> n]

NewExecution(wrapper, strategy) ==
  [wrapper |-> wrapper, strategy |-> strategy, pc |-> "idle", settled |-> "none",
   perr |-> NoError, attempt |-> 0, calls |-> 0, attempts |-> <<>>, waits |-> <<>>,
   fails |-> 0, asked |-> <<>>, via |-> "none", outcome |-> "none", error |-> NoError]

HasSignal(x) == x.wrapper = "fetchWithRetry"

\* return await ...
Return(x) ==
  [x EXCEPT !.pc = "done", !.settled = "none", !.outcome = "returned", !.via = "return"]

\* throw error, out of execute / request
\* a throw that starts the execution over
Throw_Restarts(x, error) == NewExecution(x.wrapper, x.strategy)

Throw(x, error) ==
  [x EXCEPT !.pc = "done", !.settled = "none", !.outcome = "thrown", !.error = error]

\* fn() or fetch(url, { signal }) is called and awaited
Invoke(x) ==
  [x EXCEPT !.pc = IF HasSignal(x) THEN "fetch" ELSE "fn",
            !.settled = "pending",
            !.calls = @ + 1,
            !.attempts = Append(@, x.attempt)]

\* a loop head without the signal check
LoopTop_NoSignalCheck(x, ab) == Invoke(x)

\* top of while (true): the signal check of fetchWithRetry, then the call
LoopTop(x, ab) ==
  IF HasSignal(x) /\ ab
    THEN [Throw(x, AbortError) EXCEPT !.via = "signal"]
    ELSE Invoke(x)

\* a catch block that rethrows the error of the first invocation
Catch_ThrowsFirstError(x, error, ab) ==
  LET y == [x EXCEPT !.fails = @ + 1]
      z == [y EXCEPT !.asked = Append(@, x.attempt)]
  IN  IF HasSignal(x) /\ ab
        THEN [Throw(y, error) EXCEPT !.via = "signal"]
        ELSE IF ~shouldRetry(x.strategy, error, x.attempt)
          THEN [Throw(z, OpError(1)) EXCEPT !.via = "policy"]
          ELSE [z EXCEPT !.pc = "wait", !.settled = "pending",
                         !.waits = Append(@, getDelay(x.strategy, x.attempt))]

\* the catch block, up to its await
Catch(x, error, ab) ==
  LET y == [x EXCEPT !.fails = @ + 1]
      z == [y EXCEPT !.asked = Append(@, x.attempt)]
  IN  IF HasSignal(x) /\ ab
        THEN [Throw(y, error) EXCEPT !.via = "signal"]
        ELSE IF ~shouldRetry(x.strategy, error, x.attempt)
          THEN [Throw(z, error) EXCEPT !.via = "policy"]
          ELSE [z EXCEPT !.pc = "wait", !.settled = "pending",
                         !.waits = Append(@, getDelay(x.strategy, x.attempt))]

\* a continuation that adds 2 to attempt after the wait
Resume_SkipsAttempt(x, ab) ==
  CASE x.pc = "fn" /\ x.settled = "resolved" -> Return(x)
    [] x.pc = "fn" /\ x.settled = "rejected" -> Catch(x, x.perr, ab)
    [] x.pc = "fetch" /\ x.settled = "resolved" ->
         [x EXCEPT !.pc = "json", !.settled = "pending"]
    [] x.pc = "fetch" /\ x.settled = "notok" -> Catch(x, OpError(x.calls), ab)
    [] x.pc = "fetch" /\ x.settled = "rejected" -> Catch(x, x.perr, ab)
    [] x.pc = "json" /\ x.settled = "resolved" -> Return(x)
    [] x.pc = "json" /\ x.settled = "rejected" -> Catch(x, x.perr, ab)
    [] x.pc = "wait" /\ x.settled = "resolved" ->
         LoopTop([x EXCEPT !.attempt = @ + 2], ab)
    [] x.pc = "wait" /\ x.settled = "rejected" ->
         [Throw(x, x.perr) EXCEPT !.via = "signal"]

\* the continuation of the async function once the awaited promise settled
Resume(x, ab) ==
  CASE x.pc = "fn" /\ x.settled = "resolved" -> Return(x)
    [] x.pc = "fn" /\ x.settled = "rejected" -> Catch(x, x.perr, ab)
    [] x.pc = "fetch" /\ x.settled = "resolved" ->
         [x EXCEPT !.pc = "json", !.settled = "pending"]
    [] x.pc = "fetch" /\ x.settled = "notok" -> Catch(x, OpError(x.calls), ab)
    [] x.pc = "fetch" /\ x.settled = "rejected" -> Catch(x, x.perr, ab)
    [] x.pc = "json" /\ x.settled = "resolved" -> Return(x)
    [] x.pc = "json" /\ x.settled = "rejected" -> Catch(x, x.perr, ab)
    [] x.pc = "wait" /\ x.settled = "resolved" ->
         LoopTop([x EXCEPT !.attempt = @ + 1], ab)
    [] x.pc = "wait" /\ x.settled = "rejected" ->
         [Throw(x, x.perr) EXCEPT !.via = "signal"]

\* controller.abort(): the abort steps run at once; a pending fetch or body
\* read is rejected, the listener of a pending wait clears the timer and
\* rejects
AbortPending(x) ==
  IF HasSignal(x) /\ x.settled = "pending"
    THEN [x EXCEPT !.settled = "rejected", !.perr = AbortError]
    ELSE x

\* ------------------------------------------------------------------------
\* State machine of one Document with one UndoRedoManager
\* ------------------------------------------------------------------------
hvars == <<doc, undoStack, redoStack, checkpoints, now, last, cpDoc, cpLog, steps>>
rvars == <<rx, aborted, rx2, probe, hook>>
vars == <<doc, undoStack, redoStack, checkpoints, now, last, cpDoc, cpLog, steps,
          script, rx, aborted, rx2, probe, hook>>

NoCall ==
  [op |-> "none", name |-> "", ret |-> "void", redoLen |-> 0, had |-> FALSE,
   list |-> <<>>]
\* usePaymentsApi(): abortRef.current is null (0) and no execute() was called
NoHook == [runs |-> <<>>, current |-> 0]
NoProbe ==
  [asked |-> FALSE, strategy |-> FailFastStrategy, error |-> NoError, attempt |-> 0,
   retry |-> FALSE, delay |-> 0]
NoScript == [phase |-> "off", k |-> 0, n |-> 0, m |-> 0]

\* const document = new Document(); const undoManager = new UndoRedoManager()
HistoryInit ==
  /\ doc = InitialDocument
  /\ undoStack = <<>>
  /\ redoStack = <<>>
  /\ checkpoints = <<>>
  /\ now = 0
  /\ last = NoCall
  /\ cpDoc = [nm \in Names |-> InitialDocument]
  /\ cpLog = [first |-> <<>>, live |-> <<>>]
  /\ steps = 0

NoRetry ==
  /\ rx = NewExecution("request", FailFastStrategy)
  /\ rx2 = NewExecution("request", FailFastStrategy)
  /\ aborted = FALSE
  /\ probe = NoProbe
  /\ hook = NoHook

Init ==
  /\ HistoryInit
  /\ script = NoScript
  /\ NoRetry

InSeq(s, e) == \E i \in 1..Len(s) : s[i] = e
Without(s, e) == SelectSeq(s, LAMBDA f : f # e)

\* the record of the createCheckpoint, deleteCheckpoint and clearHistory
\* calls made: first lists the names in the order in which each was created
\* for the first time, live the names created and not deleted or cleared
\* since, in the order of the creation that stored them
Logged(log, op, name) ==
  CASE op = "createCheckpoint" ->
         [first |-> IF InSeq(log.first, name) THEN log.first ELSE Append(log.first, name),
          live |-> IF InSeq(log.live, name) THEN log.live ELSE Append(log.live, name)]
    [] op = "deleteCheckpoint" -> [log EXCEPT !.live = Without(@, name)]
    [] op = "clearHistory" -> [log EXCEPT !.live = <<>>]
    [] OTHER -> log

\* the manager and the document take the state a call returned; last
\* remembers the call, its return value, the length the redo sequence had
\* before it and whether its name was stored before it
Call(res, op, name) ==
  /\ doc' = res.doc
  /\ undoStack' = res.undoStack
  /\ redoStack' = res.redoStack
  /\ checkpoints' = res.checkpoints
  /\ last' = [op |-> op, name |-> name, ret |-> res.ret,
              redoLen |-> Len(redoStack), had |-> MapHas(checkpoints, name),
              list |-> <<>>]
  /\ cpLog' = Logged(cpLog, op, name)
  /\ UNCHANGED now

\* the caller makes at most MaxSteps calls
Step ==
  /\ steps < MaxSteps
  /\ steps' = steps + 1
  /\ UNCHANGED <<script, rx, aborted, rx2, probe, hook>>

\* Date.now() moves on between two calls
Tick ==
  /\ \E t \in Instants : t > now /\ now' = t
  /\ UNCHANGED <<doc, undoStack, redoStack, checkpoints, last, cpDoc, cpLog, steps,
                 script>>
  /\ UNCHANGED rvars

\* a setter whose document shares its state object with the newest entry of
\* the undo sequence
Edit_WritesThrough(d) ==
  /\ doc' = d
  /\ undoStack' = IF undoStack = <<>> THEN undoStack
                  ELSE [undoStack EXCEPT ![Len(undoStack)].state = d]
  /\ UNCHANGED <<redoStack, checkpoints, now, last, cpDoc, cpLog>>

Edit(d) ==
  /\ doc' = d
  /\ UNCHANGED <<undoStack, redoStack, checkpoints, now, last, cpDoc, cpLog>>

SetText == \E content \in Contents : Step /\ Edit(setText(doc, content))
SetFontSize == \E size \in FontSizes : Step /\ Edit(setFontSize(doc, size))
SetLineSpacing == \E spacing \in LineSpacings : Step /\ Edit(setLineSpacing(doc, spacing))
SetFontFamily == \E family \in FontFamilies : Step /\ Edit(setFontFamily(doc, family))

SaveState ==
  /\ Step
  /\ Call(saveState(doc, undoStack, redoStack, checkpoints, now), "saveState", "")
  /\ UNCHANGED cpDoc

Undo ==
  /\ Step
  /\ Call(undo(doc, undoStack, redoStack, checkpoints, now), "undo", "")
  /\ UNCHANGED cpDoc

Redo ==
  /\ Step
  /\ Call(redo(doc, undoStack, redoStack, checkpoints, now), "redo", "")
  /\ UNCHANGED cpDoc

\* cpDoc[name]: the document state at the most recent createCheckpoint(name)
CreateCheckpointOf(name) ==
  /\ Step
  /\ Call(createCheckpoint(name, doc, undoStack, redoStack, checkpoints, now),
          "createCheckpoint", name)
  /\ cpDoc' = [cpDoc EXCEPT ![name] = doc]

CreateCheckpoint == \E name \in Names : CreateCheckpointOf(name)

RestoreCheckpointOf(name) ==
  /\ Step
  /\ Call(restoreCheckpoint(name, doc, undoStack, redoStack, checkpoints, now),
          "restoreCheckpoint", name)
  /\ UNCHANGED cpDoc

RestoreCheckpoint == \E name \in Names : RestoreCheckpointOf(name)

DeleteCheckpointOf(name) ==
  /\ Step
  /\ Call(deleteCheckpoint(name, doc, undoStack, redoStack, checkpoints),
          "deleteCheckpoint", name)
  /\ UNCHANGED cpDoc

DeleteCheckpoint == \E name \in Names : DeleteCheckpointOf(name)

ClearHistory ==
  /\ Step
  /\ Call(clearHistory(doc, undoStack, redoStack, checkpoints), "clearHistory", "")
  /\ UNCHANGED cpDoc

\* listCheckpoints(): last.list is the array returned
ListCheckpoints ==
  /\ Step
  /\ last' = [op |-> "listCheckpoints", name |-> "", ret |-> "void",
              redoLen |-> Len(redoStack), had |-> FALSE,
              list |-> listCheckpoints(checkpoints)]
  /\ UNCHANGED <<doc, undoStack, redoStack, checkpoints, now, cpDoc, cpLog>>

Next ==
  \/ Tick
  \/ SetText
  \/ SetFontSize
  \/ SetLineSpacing
  \/ SetFontFamily
  \/ SaveState
  \/ Undo
  \/ Redo
  \/ CreateCheckpoint
  \/ RestoreCheckpoint
  \/ DeleteCheckpoint
  \/ ClearHistory
  \/ ListCheckpoints

Spec == Init /\ [][Next]_vars

\* ------------------------------------------------------------------------
\* The usage of demonstrateMemento, Scenario 1: k edits, each followed by
\* saveState, then n undo calls, then m redo calls, and nothing else
\* ------------------------------------------------------------------------
ContentOf(i) == ScriptContents[i]

ScriptInit ==
  /\ HistoryInit
  /\ script = [phase |-> "edit", k |-> 0, n |-> 0, m |-> 0]
  /\ NoRetry

ScriptEdit ==
  /\ script.phase = "edit"
  /\ script.k < MaxK
  /\ Edit(setText(doc, ContentOf(script.k + 1)))
  /\ script' = [script EXCEPT !.phase = "save"]
  /\ UNCHANGED <<steps, rx, aborted, rx2, probe, hook>>

ScriptSave ==
  /\ script.phase = "save"
  /\ Call(saveState(doc, undoStack, redoStack, checkpoints, now), "saveState", "")
  /\ script' = [script EXCEPT !.phase = "edit", !.k = @ + 1]
  /\ UNCHANGED <<cpDoc, steps, rx, aborted, rx2, probe, hook>>

ScriptUndo ==
  /\ script.phase \in {"edit", "undo"}
  /\ script.k >= 1
  /\ script.n < script.k
  /\ Call(undo(doc, undoStack, redoStack, checkpoints, now), "undo", "")
  /\ script' = [script EXCEPT !.phase = "undo", !.n = @ + 1]
  /\ UNCHANGED <<cpDoc, steps, rx, aborted, rx2, probe, hook>>

ScriptRedo ==
  /\ script.phase \in {"undo", "redo"}
  /\ script.m < script.n
  /\ Call(redo(doc, undoStack, redoStack, checkpoints, now), "redo", "")
  /\ script' = [script EXCEPT !.phase = "redo", !.m = @ + 1]
  /\ UNCHANGED <<cpDoc, steps, rx, aborted, rx2, probe, hook>>

ScriptNext ==
  \/ Tick
  \/ ScriptEdit
  \/ ScriptSave
  \/ ScriptUndo
  \/ ScriptRedo

ScriptSpec == ScriptInit /\ [][ScriptNext]_vars

\* ------------------------------------------------------------------------
\* State machine of one retrying execution
\* ------------------------------------------------------------------------
Strategies ==
  {FailFastStrategy}
    \cup {FixedRetryStrategy(m, d) : m \in 0..MaxRetries, d \in Delays}
    \cup {ExponentialBackoffStrategy(m, d) : m \in 0..MaxRetries, d \in Delays}

RetryInit ==
  /\ HistoryInit
  /\ script = NoScript
  /\ rx \in {NewExecution(w, s) : w \in {"request", "fetchWithRetry"}, s \in Strategies}
  /\ rx2 = NewExecution("request", FailFastStrategy)
  /\ aborted = FALSE
  /\ probe = NoProbe
  /\ hook = NoHook

Quiet ==
  UNCHANGED <<doc, undoStack, redoStack, checkpoints, now, last, cpDoc, cpLog, steps,
              script, probe, hook>>

\* client.request(fn) / execute() is called and runs up to its first await
Execute ==
  /\ rx.pc = "idle"
  /\ rx' = LoopTop(rx, aborted)
  /\ UNCHANGED <<aborted, rx2>>
  /\ Quiet

\* fn() or fetch() fulfils; a fetch response is ok or not
OpResolves ==
  /\ rx.pc \in {"fn", "fetch"}
  /\ rx.settled = "pending"
  /\ \E ok \in BOOLEAN :
       /\ ok \/ rx.pc = "fetch"
       /\ rx' = [rx EXCEPT !.settled = IF ok THEN "resolved" ELSE "notok"]
  /\ UNCHANGED <<aborted, rx2>>
  /\ Quiet

\* fn(), fetch() or response.json() rejects
OpRejects ==
  /\ rx.pc \in {"fn", "fetch", "json"}
  /\ rx.settled = "pending"
  /\ rx' = [rx EXCEPT !.settled = "rejected", !.perr = OpError(rx.calls)]
  /\ UNCHANGED <<aborted, rx2>>
  /\ Quiet

\* response.json() fulfils
JsonResolves ==
  /\ rx.pc = "json"
  /\ rx.settled = "pending"
  /\ rx' = [rx EXCEPT !.settled = "resolved"]
  /\ UNCHANGED <<aborted, rx2>>
  /\ Quiet

\* setTimeout(resolve, delay) fires
TimerFires ==
  /\ rx.pc = "wait"
  /\ rx.settled = "pending"
  /\ rx' = [rx EXCEPT !.settled = "resolved"]
  /\ UNCHANGED <<aborted, rx2>>
  /\ Quiet

\* the async function goes on after its await
Continue ==
  /\ rx.pc \in {"fn", "fetch", "json", "wait"}
  /\ rx.settled \in {"resolved", "notok", "rejected"}
  /\ rx' = Resume(rx, aborted)
  /\ UNCHANGED <<aborted, rx2>>
  /\ Quiet

\* the body of a response whose fetch was aborted is errored: reading it
\* rejects with the abort reason (it may also have been buffered already,
\* then JsonResolves and OpRejects apply)
BodyAborted ==
  /\ rx.pc = "json"
  /\ rx.settled = "pending"
  /\ aborted
  /\ rx' = [rx EXCEPT !.settled = "rejected", !.perr = AbortError]
  /\ UNCHANGED <<aborted, rx2>>
  /\ Quiet

\* the owner of the AbortController aborts the signal
Abort ==
  /\ HasSignal(rx)
  /\ ~aborted
  /\ aborted' = TRUE
  /\ rx' = AbortPending(rx)
  /\ UNCHANGED rx2
  /\ Quiet

RetryNext ==
  \/ Execute
  \/ OpResolves
  \/ OpRejects
  \/ JsonResolves
  \/ TimerFires
  \/ Continue
  \/ BodyAborted
  \/ Abort

RetrySpec == RetryInit /\ [][RetryNext]_vars

\* an execution whose signal is never aborted, in which every invocation of
\* the operation settles, every timer fires and the async function runs on
\* whenever the promise it awaits has settled
RunNext ==
  \/ Execute
  \/ OpResolves
  \/ OpRejects
  \/ JsonResolves
  \/ TimerFires
  \/ Continue

RetryFairSpec ==
  /\ RetryInit
  /\ [][RunNext]_vars
  /\ WF_vars(Execute)
  /\ WF_vars(OpResolves \/ OpRejects \/ JsonResolves)
  /\ WF_vars(TimerFires)
  /\ WF_vars(Continue)

\* ------------------------------------------------------------------------
\* The strategies on their own: one consultation of shouldRetry and getDelay
\* of a strategy object, with an error and an attempt index.
\* ------------------------------------------------------------------------
Errors == {OpError(1), AbortError}

PolicyInit ==
  /\ HistoryInit
  /\ script = NoScript
  /\ NoRetry

Consult ==
  /\ \E strategy \in Strategies, error \in Errors, attempt \in 0..MaxAttempt :
       probe' = [asked |-> TRUE, strategy |-> strategy, error |-> error,
                 attempt |-> attempt,
                 retry |-> shouldRetry(strategy, error, attempt),
                 delay |-> getDelay(strategy, attempt)]
  /\ UNCHANGED <<doc, undoStack, redoStack, checkpoints, now, last, cpDoc, cpLog,
                 steps, script, rx, aborted, rx2, hook>>

PolicyNext == Consult

PolicySpec == PolicyInit /\ [][PolicyNext]_vars

\* ------------------------------------------------------------------------
\* Two executions of the same wrapper in flight at once: two calls of
\* request on one ApiClient, or two calls of the closure one fetchWithRetry
\* call returned (one strategy object, one signal).
\* ------------------------------------------------------------------------
\* the records one step of an execution can lead to: its operation, body or
\* timer settling, or the async function running on to its next await
Moves(x, ab) ==
  LET pending == x.settled = "pending"
  IN  (IF x.pc = "idle" THEN {LoopTop(x, ab)} ELSE {})
        \cup (IF x.pc \in {"fn", "fetch"} /\ pending
                THEN {[x EXCEPT !.settled = "resolved"]} ELSE {})
        \cup (IF x.pc = "fetch" /\ pending
                THEN {[x EXCEPT !.settled = "notok"]} ELSE {})
        \cup (IF x.pc \in {"fn", "fetch", "json"} /\ pending
                THEN {[x EXCEPT !.settled = "rejected", !.perr = OpError(x.calls)]}
                ELSE {})
        \cup (IF x.pc \in {"json", "wait"} /\ pending
                THEN {[x EXCEPT !.settled = "resolved"]} ELSE {})
        \cup (IF x.pc = "json" /\ pending /\ ab
                THEN {[x EXCEPT !.settled = "rejected", !.perr = AbortError]} ELSE {})
        \cup (IF x.pc \in {"fn", "fetch", "json", "wait"}
                   /\ x.settled \in {"resolved", "notok", "rejected"}
                THEN {Resume(x, ab)} ELSE {})

Frame_SharedAttempt(y, other) == <<y, [other EXCEPT !.attempt = y.attempt]>>

\* attempt is a local of the call: a step of one execution, which leaves it
\* in y, leaves the other execution as it was
Frame(y, other) == <<y, other>>

ConcInit ==
  /\ HistoryInit
  /\ script = NoScript
  /\ \E w \in {"request", "fetchWithRetry"}, s \in Strategies :
       /\ rx = NewExecution(w, s)
       /\ rx2 = NewExecution(w, s)
  /\ aborted = FALSE
  /\ probe = NoProbe
  /\ hook = NoHook

StepFirst ==
  /\ \E y \in Moves(rx, aborted) :
       /\ rx' = Frame(y, rx2)[1]
       /\ rx2' = Frame(y, rx2)[2]
  /\ UNCHANGED aborted
  /\ Quiet

StepSecond ==
  /\ \E y \in Moves(rx2, aborted) :
       /\ rx2' = Frame(y, rx)[1]
       /\ rx' = Frame(y, rx)[2]
  /\ UNCHANGED aborted
  /\ Quiet

\* the signal is the one both executions closed over
AbortBoth ==
  /\ HasSignal(rx)
  /\ ~aborted
  /\ aborted' = TRUE
  /\ rx' = AbortPending(rx)
  /\ rx2' = AbortPending(rx2)
  /\ Quiet

ConcNext ==
  \/ StepFirst
  \/ StepSecond
  \/ AbortBoth

ConcSpec == ConcInit /\ [][ConcNext]_vars

\* ------------------------------------------------------------------------
\* usePaymentsApi: one hook instance whose execute() is called again and
\* again. hook.runs lists the executions started, each with its record and
\* the aborted flag of the signal of its own AbortController; hook.current
\* is the position in runs of the controller abortRef.current holds.
\* ------------------------------------------------------------------------
PaymentsStrategy == FixedRetryStrategy(3, 1000)

AbortPrevious_Skips(h) == h

\* abortRef.current?.abort()
AbortPrevious(h) ==
  IF h.current = 0 \/ h.runs[h.current].ab THEN h
  ELSE [h EXCEPT !.runs[h.current] =
                   [x |-> AbortPending(h.runs[h.current].x), ab |-> TRUE]]

\* abortRef.current = new AbortController(); fetchWithRetry(...); fetcher():
\* the new execution runs to its first await in the same synchronous run
StartRun(h) ==
  [runs |-> Append(h.runs,
                   [x |-> LoopTop(NewExecution("fetchWithRetry", PaymentsStrategy), FALSE),
                    ab |-> FALSE]),
   current |-> Len(h.runs) + 1]

HookQuiet ==
  UNCHANGED <<doc, undoStack, redoStack, checkpoints, now, last, cpDoc, cpLog, steps,
              script, rx, aborted, rx2, probe>>

HookInit ==
  /\ HistoryInit
  /\ script = NoScript
  /\ NoRetry

\* a call of execute(): everything up to the first await of the new execution
HookExecute ==
  /\ Len(hook.runs) < MaxExecutes
  /\ hook' = StartRun(AbortPrevious(hook))
  /\ HookQuiet

\* one step of one of the executions started
HookStep ==
  /\ \E i \in 1..Len(hook.runs) :
       \E y \in Moves(hook.runs[i].x, hook.runs[i].ab) :
         hook' = [hook EXCEPT !.runs[i].x = y]
  /\ HookQuiet

HookNext ==
  \/ HookExecute
  \/ HookStep

HookSpec == HookInit /\ [][HookNext]_vars

\* ------------------------------------------------------------------------
\* Properties
\* ------------------------------------------------------------------------
States(s) == [i \in 1..Len(s) |-> s[i].state]
After(t) == {t2 \in Instants : t2 >= t}
Later == After(now)

\* C1: after k saveState calls, each right after setting a distinct content,
\* and then N undo calls (0 <= N < k), the document content is the content
\* captured at saveState call number k - N.
C1_UndoReachesSavedContent ==
  (script.phase \in {"edit", "undo"} /\ script.k >= 1 /\ script.n < script.k)
    => doc.content = ContentOf(script.k - script.n)

\* C2: after k saveState calls, N undo calls and M redo calls with
\* 1 <= M <= N < k, the document content is the content captured at
\* saveState call number k - N + M.
C2_RedoReachesSavedContent ==
  (script.phase = "redo" /\ script.m >= 1 /\ script.n < script.k)
    => doc.content = ContentOf(script.k - script.n + script.m)

UndoThenRedo(t1, t2) ==
  LET a == undo(doc, undoStack, redoStack, checkpoints, t1)
  IN  redo(a.doc, a.undoStack, a.redoStack, a.checkpoints, t2)

RedoThenUndo(t1, t2) ==
  LET a == redo(doc, undoStack, redoStack, checkpoints, t1)
  IN  undo(a.doc, a.undoStack, a.redoStack, a.checkpoints, t2)

\* C3 (as stated): wherever undo succeeds, undo followed at once by redo
\* leaves the document, the undo sequence and the redo sequence exactly as
\* they were, and likewise redo followed at once by undo.
C3_StrictInverseExact ==
  \A t1 \in Later : \A t2 \in After(t1) :
    /\ Len(undoStack) > 0 =>
         LET b == UndoThenRedo(t1, t2)
         IN  b.doc = doc /\ b.undoStack = undoStack /\ b.redoStack = redoStack
    /\ Len(redoStack) > 0 =>
         LET b == RedoThenUndo(t1, t2)
         IN  b.doc = doc /\ b.undoStack = undoStack /\ b.redoStack = redoStack

\* C3 (amended): wherever undo succeeds, undo followed at once by redo gives
\* back the document state, the redo sequence and all but the last entry of
\* the undo sequence exactly, and a last undo entry holding the same state
\* with a creation time that is not earlier; symmetrically for redo followed
\* by undo, where the re-created entry is the last one of the redo sequence.
C3_StrictInverse ==
  \A t1 \in Later : \A t2 \in After(t1) :
    /\ Len(undoStack) > 0 =>
         LET b == UndoThenRedo(t1, t2)
         IN  /\ b.ret = "true"
             /\ b.doc = doc
             /\ b.redoStack = redoStack
             /\ Len(b.undoStack) = Len(undoStack)
             /\ Front(b.undoStack) = Front(undoStack)
             /\ Top(b.undoStack).state = Top(undoStack).state
             /\ Top(b.undoStack).timestamp = t2
    /\ Len(redoStack) > 0 =>
         LET b == RedoThenUndo(t1, t2)
         IN  /\ b.ret = "true"
             /\ b.doc = doc
             /\ b.undoStack = undoStack
             /\ Len(b.redoStack) = Len(redoStack)
             /\ Front(b.redoStack) = Front(redoStack)
             /\ Top(b.redoStack).state = Top(redoStack).state
             /\ Top(b.redoStack).timestamp = t2

C3_Witness ==
  /\ last.op = "undo" /\ last.ret = "true"
  /\ Len(undoStack) > 0 /\ Len(redoStack) > 0
  /\ Top(undoStack).state # doc
  /\ Top(redoStack).state # doc
  /\ now > Top(undoStack).timestamp

RedoFails ==
  \A t \in Later :
    redo(doc, undoStack, redoStack, checkpoints, t)
      = Result(doc, undoStack, redoStack, checkpoints, "false")

\* C4: after every saveState and after every successful restoreCheckpoint,
\* whatever came before, the redo sequence is empty, and a redo issued then
\* returns false and changes nothing.
C4_RedoClearedByNewAction ==
  (last.op = "saveState" \/ (last.op = "restoreCheckpoint" /\ last.ret = "true"))
    => (redoStack = <<>> /\ RedoFails)

C4_Witness ==
  /\ last.op = "saveState"
  /\ last.redoLen > 0
  /\ redoStack = <<>>

SameFields(d, state) ==
  /\ d.content = state.content
  /\ d.fontSize = state.fontSize
  /\ d.lineSpacing = state.lineSpacing
  /\ d.fontFamily = state.fontFamily

\* C5: a successful undo returns true, appends a snapshot of the pre-undo
\* document as the last entry of the redo sequence, removes the last entry of
\* the undo sequence and sets all four document fields to that entry's state;
\* a successful redo does the same with the two sequences exchanged.
C5_UndoRedoEffect ==
  [][ /\ (Undo /\ Len(undoStack) > 0) =>
           /\ last'.ret = "true"
           /\ Len(redoStack') = Len(redoStack) + 1
           /\ Front(redoStack') = redoStack
           /\ Top(redoStack').state = doc
           /\ undoStack' = Front(undoStack)
           /\ SameFields(doc', Top(undoStack).state)
      /\ (Redo /\ Len(redoStack) > 0) =>
           /\ last'.ret = "true"
           /\ Len(undoStack') = Len(undoStack) + 1
           /\ Front(undoStack') = undoStack
           /\ Top(undoStack').state = doc
           /\ redoStack' = Front(redoStack)
           /\ SameFields(doc', Top(redoStack).state)
    ]_vars

C5_Witness ==
  /\ last.op = "undo" /\ last.ret = "true"
  /\ Len(redoStack) > 0
  /\ Top(redoStack).state.content # doc.content
  /\ Top(redoStack).state.fontFamily # doc.fontFamily

\* C6: undo on an empty undo sequence and redo on an empty redo sequence
\* return false and leave the document, both sequences and the checkpoint
\* mapping unchanged.
C6_EmptyUndoRedoFails ==
  [][ /\ (Undo /\ Len(undoStack) = 0) =>
           /\ last'.ret = "false"
           /\ UNCHANGED <<doc, undoStack, redoStack, checkpoints>>
      /\ (Redo /\ Len(redoStack) = 0) =>
           /\ last'.ret = "false"
           /\ UNCHANGED <<doc, undoStack, redoStack, checkpoints>>
    ]_vars

C6_Witness ==
  /\ last.op = "undo" /\ last.ret = "false"
  /\ undoStack = <<>>
  /\ Len(redoStack) > 0
  /\ Len(checkpoints) > 0

\* C7: restoreCheckpoint with a name that has no stored snapshot returns
\* false and leaves the document, the undo sequence, the redo sequence and
\* the checkpoint mapping unchanged.
C7_RestoreUnknownFails ==
  [][ \A name \in Names :
        (RestoreCheckpointOf(name) /\ ~MapHas(checkpoints, name)) =>
          /\ last'.ret = "false"
          /\ UNCHANGED <<doc, undoStack, redoStack, checkpoints>>
    ]_vars

C7_Witness ==
  /\ last.op = "restoreCheckpoint" /\ last.ret = "false"
  /\ Len(redoStack) > 0
  /\ Len(undoStack) > 0
  /\ Len(checkpoints) > 0

\* C8: a successful restoreCheckpoint(name) returns true, appends the
\* pre-restore document state to the undo sequence, empties the redo
\* sequence and sets every document field to the state the document had at
\* the most recent createCheckpoint(name), whatever happened since; the
\* checkpoint stays stored and can be restored again.
C8_RestoreCheckpointEffect ==
  [][ \A name \in Names :
        (RestoreCheckpointOf(name) /\ MapHas(checkpoints, name)) =>
          /\ last'.ret = "true"
          /\ Len(undoStack') = Len(undoStack) + 1
          /\ Front(undoStack') = undoStack
          /\ Top(undoStack').state = doc
          /\ redoStack' = <<>>
          /\ SameFields(doc', cpDoc[name])
          /\ checkpoints' = checkpoints
          /\ \A t \in Later :
               LET again == restoreCheckpoint(name, doc', undoStack', redoStack',
                                              checkpoints', t)
               IN  again.ret = "true" /\ SameFields(again.doc, cpDoc[name])
    ]_vars

C8_Witness ==
  /\ last.op = "restoreCheckpoint" /\ last.ret = "true"
  /\ last.redoLen > 0
  /\ Len(undoStack) > 0
  /\ Top(undoStack).state.content # doc.content

NameCount(m, name) == Cardinality({i \in 1..Len(m) : m[i].name = name})

\* C9: createCheckpoint(name) maps name to a snapshot of the current
\* document state, replacing any snapshot stored under that name so that
\* every name maps to at most one snapshot, and leaves the document, the
\* undo sequence, the redo sequence and the snapshots under all other names
\* unchanged.
C9_CreateCheckpointFrame ==
  [][ \A name \in Names :
        CreateCheckpointOf(name) =>
          /\ \E i \in 1..Len(checkpoints') :
               /\ checkpoints'[i].name = name
               /\ checkpoints'[i].memento.state = doc
          /\ \A other \in Names : NameCount(checkpoints', other) <= 1
          /\ \A other \in Names \ {name} :
               /\ MapHas(checkpoints', other) = MapHas(checkpoints, other)
               /\ MapHas(checkpoints, other) =>
                    MapGet(checkpoints', other) = MapGet(checkpoints, other)
          /\ UNCHANGED <<doc, undoStack, redoStack>>
    ]_vars

C9_Witness ==
  /\ last.op = "createCheckpoint"
  /\ last.had
  /\ Len(checkpoints) = 2
  /\ MapGet(checkpoints, last.name).state = doc
  /\ \E other \in Names \ {last.name} :
       MapHas(checkpoints, other) /\ MapGet(checkpoints, other).state # doc
  /\ Len(undoStack) > 0

CountLimited(x) == x.strategy.kind \in {"fixed", "exponential"}

\* C10 (as stated): with a count-limited policy of max = M and an operation
\* that fails every time, the wrapper invokes the operation M times in all
\* (attempts 0..M-1) and then surfaces the error.
C10_MaxInvocations ==
  CountLimited(rx) =>
    /\ rx.calls <= rx.strategy.maxRetries
    /\ (rx.outcome = "thrown" /\ ~aborted) => rx.calls = rx.strategy.maxRetries

\* C10 (amended): with a count-limited policy of max = M, an operation that
\* fails every time and no cancellation, the wrapper invokes the operation
\* for attempts 0..M, M + 1 invocations in all, and then surfaces the error
\* of the last invocation without making an (M + 2)-th invocation.
C10_MaxRetriesPlusOne ==
  CountLimited(rx) =>
    /\ rx.calls <= rx.strategy.maxRetries + 1
    /\ rx.attempts = [i \in 1..rx.calls |-> i - 1]
    /\ (rx.outcome = "thrown" /\ ~aborted) =>
         /\ rx.calls = rx.strategy.maxRetries + 1
         /\ rx.fails = rx.calls
         /\ rx.error = OpError(rx.calls)

C10_Witness ==
  /\ rx.strategy = FixedRetryStrategy(3, 1000)
  /\ rx.outcome = "thrown"
  /\ ~aborted
  /\ rx.calls = 4
  /\ rx.attempts = <<0, 1, 2, 3>>
  /\ rx.error = OpError(4)

\* C11: once the signal is aborted it stays aborted, and fetchWithRetry
\* starts no invocation of the operation afterwards, wherever the abort
\* falls: before the first attempt, during an attempt, during the wait
\* (which ends at once instead of running to its timeout), or between the
\* end of a wait and the next attempt.
C11_NoAttemptAfterAbort ==
  [][ /\ aborted => aborted'
      /\ (aborted /\ HasSignal(rx)) => rx'.calls = rx.calls
      /\ (Abort /\ rx.pc = "wait" /\ rx.settled = "pending") =>
           (rx'.pc = "wait" /\ rx'.settled = "rejected" /\ rx'.perr = AbortError)
      /\ (aborted' /\ HasSignal(rx) /\ rx.pc \in {"idle", "wait"} /\ rx'.pc # rx.pc) =>
           (rx'.pc = "done" /\ rx'.calls = rx.calls)
    ]_vars

C11_Witness ==
  /\ HasSignal(rx)
  /\ aborted
  /\ rx.pc = "done"
  /\ rx.calls >= 2
  /\ Len(rx.waits) = rx.calls
  /\ rx.calls <= rx.strategy.maxRetries

\* C12: an execution of the cancellable wrapper that ends through one of its
\* cancellation exits fails with the AbortError, never with the ordinary
\* failure of the operation.
C12_CancelledFailsWithAbortError ==
  (HasSignal(rx) /\ rx.via = "signal") =>
    (rx.outcome = "thrown" /\ rx.error = AbortError)

\* C13: when the policy answers 'no retry' for a failed attempt, the wrapper
\* fails with exactly the error that attempt raised, and makes no wait and
\* no invocation from then on.
C13_NoRetrySurfacesLastError ==
  [][ /\ (rx.via # "policy" /\ rx'.via = "policy") =>
           /\ rx'.pc = "done"
           /\ rx'.outcome = "thrown"
           /\ rx'.error = OpError(rx.calls)
           /\ rx'.error = (IF rx.settled = "rejected" THEN rx.perr ELSE OpError(rx.calls))
           /\ ~shouldRetry(rx.strategy, rx'.error, rx.attempt)
           /\ rx'.calls = rx.calls
           /\ rx'.waits = rx.waits
      /\ rx.via = "policy" =>
           /\ rx'.calls = rx.calls
           /\ rx'.waits = rx.waits
           /\ rx'.error = rx.error
           /\ rx'.pc = "done"
    ]_vars

C13_Witness ==
  /\ rx.via = "policy"
  /\ rx.calls = 3
  /\ rx.error = OpError(3)
  /\ Len(rx.waits) = 2

Ramp(n) == [i \in 1..n |-> i - 1]

\* C14: within one execution attempt starts at 0, never decreases and grows
\* by exactly 1 per failed attempt that is retried: the policy is consulted
\* after the n-th failure with attempt = n - 1, the wait that follows lasts
\* getDelay(n - 1), and the increment happens after that wait and before the
\* next invocation.
C14_AttemptCounter ==
  [][ /\ rx.pc = "idle" => rx.attempt = 0
      /\ rx'.attempt \in {rx.attempt, rx.attempt + 1}
      /\ rx'.attempt = rx.attempt + 1 =>
           /\ rx.pc = "wait" /\ rx.settled = "resolved"
           /\ rx'.calls = rx.calls + 1 \/ rx'.via = "signal"
      /\ rx'.calls = rx.calls + 1 => rx'.attempt = rx.calls
      /\ Len(rx'.asked) = Len(rx.asked) + 1 =>
           /\ rx'.fails = rx.fails + 1
           /\ rx'.asked[Len(rx'.asked)] = rx'.fails - 1
           /\ rx'.attempt = rx.attempt
      /\ Len(rx'.waits) = Len(rx.waits) + 1 =>
           /\ Len(rx'.asked) = Len(rx.asked) + 1
           /\ rx'.waits[Len(rx'.waits)] = getDelay(rx.strategy, rx'.fails - 1)
           /\ rx'.attempt = rx'.fails - 1
      /\ rx'.asked = Ramp(Len(rx'.asked))
      /\ rx'.attempts = Ramp(rx'.calls)
    ]_vars

C14_Witness ==
  /\ rx.strategy = ExponentialBackoffStrategy(3, 200)
  /\ rx.pc = "done"
  /\ rx.attempt = 3
  /\ rx.asked = <<0, 1, 2, 3>>
  /\ rx.waits = <<200, 400, 800>>
  /\ rx.attempts = <<0, 1, 2, 3>>
\* 2^a by repeated doubling
RECURSIVE Doubled(_, _)
Doubled(v, a) == IF a = 0 THEN v ELSE Doubled(v + v, a - 1)

\* C15: for every attempt index a of the range, the delay of an exponential
\* strategy is baseDelay * 2^a, the delay of a fixed strategy is its delayMs,
\* a fail-fast strategy answers false to shouldRetry for every error, and the
\* two count-limited strategies answer true exactly when a < maxRetries,
\* whatever the error.
C15_StrategyAnswers ==
  probe.asked =>
    /\ probe.strategy.kind = "exponential" =>
          probe.delay = Doubled(probe.strategy.delay, probe.attempt)
    /\ probe.strategy.kind = "fixed" =>
          (probe.delay = probe.strategy.delay /\ probe.delay \in Delays)
    /\ probe.strategy.kind = "failFast" => probe.retry = FALSE
    /\ CountLimited(probe) =>
          (probe.retry <=> probe.attempt < probe.strategy.maxRetries)

C15_Witness ==
  /\ probe.asked
  /\ probe.strategy = ExponentialBackoffStrategy(3, 200)
  /\ probe.attempt = 4
  /\ probe.delay = 3200
  /\ probe.retry = FALSE
  /\ probe.error = AbortError

\* the records an execution that runs alone shows: the invocations carry the
\* attempt numbers 0, 1, 2, ..., the strategy is consulted with 0, 1, 2, ...,
\* the i-th wait is the strategy's delay for attempt i - 1, and the numbers
\* of invocations, consultations and waits stay within the strategy's limit
AloneShape(x) ==
  /\ x.attempts = Ramp(x.calls)
  /\ x.asked = Ramp(Len(x.asked))
  /\ x.waits = [i \in 1..Len(x.waits) |-> getDelay(x.strategy, i - 1)]
  /\ x.calls <= x.strategy.maxRetries + 1
  /\ Len(x.waits) <= x.strategy.maxRetries
  /\ Len(x.asked) <= x.fails
  /\ x.fails <= x.calls
  /\ Len(x.waits) <= Len(x.asked)
  /\ x.attempt <= x.calls
  /\ x.calls <= x.attempt + 1
  /\ (x.pc \in {"fn", "fetch", "json"}) => x.attempt = x.calls - 1
  /\ (x.pc = "wait") => (x.attempt = x.calls - 1 /\ Len(x.waits) = x.calls)

\* C16: of two interleaved executions of one wrapper with one strategy
\* object, a step of one changes nothing of the other, every step an
\* execution takes is a step it can take alone, and each makes the attempts,
\* strategy consultations and waits of an execution that runs alone.
C16_NoInterference ==
  [][ /\ AloneShape(rx') /\ AloneShape(rx2')
      /\ (rx' # rx /\ rx2' # rx2) => (aborted' /\ ~aborted)
      /\ (aborted' = aborted /\ rx' # rx) => rx' \in Moves(rx, aborted)
      /\ (aborted' = aborted /\ rx2' # rx2) => rx2' \in Moves(rx2, aborted)
      /\ (aborted' # aborted) => (rx' = AbortPending(rx) /\ rx2' = AbortPending(rx2))
    ]_vars

C16_Witness ==
  /\ rx.strategy = FixedRetryStrategy(2, 200)
  /\ rx.pc = "done" /\ rx.outcome = "thrown" /\ rx.calls = 3 /\ rx.waits = <<200, 200>>
  /\ rx2.pc = "wait" /\ rx2.calls = 1 /\ rx2.attempt = 0 /\ rx2.waits = <<200>>
  /\ ~aborted

\* the invocations after the first one
Retries(x) == IF x.calls = 0 THEN 0 ELSE x.calls - 1

\* C18: an ApiClient with FixedRetryStrategy(1, 200) invokes a failing
\* operation twice, with one wait of 200 between, before it surfaces the
\* error; an ApiClient with FailFastStrategy invokes it once and never waits;
\* a count-limited strategy with maxRetries = M allows M retries after the
\* first invocation, each after a wait, and all M are made before the error
\* is surfaced.
C18_ClientRetries ==
  (rx.wrapper = "request") =>
    /\ (rx.strategy = FixedRetryStrategy(1, 200)) =>
          /\ Retries(rx) <= 1
          /\ (rx.outcome = "thrown") => (rx.calls = 2 /\ rx.waits = <<200>> /\ rx.fails = 2)
    /\ (rx.strategy = FailFastStrategy) =>
          /\ Retries(rx) = 0
          /\ rx.waits = <<>>
          /\ (rx.outcome = "thrown") => (rx.calls = 1 /\ rx.fails = 1)
    /\ CountLimited(rx) =>
          /\ Retries(rx) <= rx.strategy.maxRetries
          /\ Len(rx.waits) \in {Retries(rx), Retries(rx) + 1}
          /\ (rx.outcome = "thrown") =>
                (Retries(rx) = rx.strategy.maxRetries /\ Len(rx.waits) = Retries(rx))

C18_Witness ==
  /\ rx.wrapper = "request"
  /\ rx.strategy = FixedRetryStrategy(1, 200)
  /\ rx.outcome = "thrown"
  /\ rx.calls = 2
  /\ rx.waits = <<200>>

\* the invocation the execution is suspended on has succeeded
Succeeded(x) ==
  \/ x.pc = "fn" /\ x.settled = "resolved"
  \/ x.pc = "json" /\ x.settled = "resolved"

\* C20: an execution that is not cancelled, whose invocations all settle and
\* whose timers all fire, ends: it returns after the first invocation that
\* succeeded, without another invocation, or it throws when the operation
\* has failed maxRetries + 1 times; once ended it does nothing more.
C20_Terminates ==
  /\ <>(rx.pc = "done")
  /\ [](rx.pc = "done" =>
          \/ rx.outcome = "returned" /\ rx.fails = rx.calls - 1
          \/ /\ rx.outcome = "thrown"
             /\ rx.fails = rx.calls
             /\ rx.calls = rx.strategy.maxRetries + 1)
  /\ [][ /\ Succeeded(rx) =>
             (rx'.pc = "done" /\ rx'.outcome = "returned" /\ rx'.calls = rx.calls)
         /\ (rx'.outcome = "returned" /\ rx.outcome # "returned") => Succeeded(rx)
         /\ rx.pc = "done" => rx' = rx
         /\ rx'.calls <= rx.strategy.maxRetries + 1
       ]_vars

C20_Witness ==
  /\ rx.pc = "done"
  /\ rx.outcome = "thrown"
  /\ rx.strategy.maxRetries = MaxRetries
  /\ rx.calls = MaxRetries + 1
  /\ rx.fails = MaxRetries + 1
  /\ ~aborted

Min(a, b) == IF a < b THEN a ELSE b

\* the entries the sequence keeps over the step are the entries it had
KeptEntries(s, t) == \A i \in 1..Min(Len(s), Len(t)) : t[i] = s[i]

\* C17: a setter of the document changes no part of the manager; over any
\* step the entries that stay in the undo sequence and in the redo sequence
\* are the entries they were, state and timestamp, and a checkpoint stored
\* under a name before and after the step holds the snapshot it held, unless
\* the step is createCheckpoint of that name.
C17_SnapshotsIsolated ==
  [][ /\ (last' = last /\ (SetText \/ SetFontSize \/ SetLineSpacing \/ SetFontFamily)) =>
            UNCHANGED <<undoStack, redoStack, checkpoints>>
      /\ undoStack' = undoStack \/ KeptEntries(undoStack, undoStack')
      /\ redoStack' = redoStack \/ KeptEntries(redoStack, redoStack')
      /\ \/ checkpoints' = checkpoints
         \/ /\ \A name \in Names :
                  (MapHas(checkpoints, name) /\ MapHas(checkpoints', name)) =>
                    \/ MapGet(checkpoints', name) = MapGet(checkpoints, name)
                    \/ CreateCheckpointOf(name)
            /\ ~(last'.op = "undo" /\ Undo)
            /\ ~(last'.op = "redo" /\ Redo)
            /\ ~(last'.op = "restoreCheckpoint" /\ RestoreCheckpoint)
    ]_vars

C17_Witness ==
  /\ last.op = "undo" /\ last.ret = "true"
  /\ MapHas(checkpoints, "v1")
  /\ MapGet(checkpoints, "v1").state = InitialDocument
  /\ doc.content = "A"
  /\ redoStack # <<>>
  /\ Top(redoStack).state.content = "B"

\* the stored names in the order in which each was created for the first time
FirstCreationOrder == SelectSeq(cpLog.first, LAMBDA name : InSeq(cpLog.live, name))

\* what deleteCheckpoint and restoreCheckpoint return, and what
\* deleteCheckpoint and listCheckpoints leave alone
DeleteAndList ==
  /\ \A name \in Names :
        /\ (last'.op = "deleteCheckpoint" /\ DeleteCheckpointOf(name)) =>
              /\ last'.ret = "true" <=> InSeq(cpLog.live, name)
              /\ ~MapHas(checkpoints', name)
        /\ (last'.op = "restoreCheckpoint" /\ RestoreCheckpointOf(name)) =>
              (last'.ret = "true" <=> InSeq(cpLog.live, name))
        /\ MapHas(checkpoints', name) <=> InSeq(cpLog'.live, name)
  /\ \/ UNCHANGED <<doc, undoStack, redoStack>>
     \/ ~(last'.op = "deleteCheckpoint" /\ DeleteCheckpoint)
  /\ (last'.op = "listCheckpoints" /\ ListCheckpoints) =>
        UNCHANGED <<doc, undoStack, redoStack, checkpoints>>

\* C19 (as stated): listCheckpoints returns the names created and not deleted
\* or cleared since, each once, in the order of their first creation;
\* deleteCheckpoint(name) returns true exactly when name was stored, and
\* restoreCheckpoint(name) returns false from then until name is created
\* again; neither changes the document, the undo or the redo sequence.
C19_ListInFirstCreationOrder ==
  [][ /\ (last'.op = "listCheckpoints" /\ ListCheckpoints) =>
            last'.list = FirstCreationOrder
      /\ DeleteAndList
    ]_vars

\* C19 (amended): listCheckpoints returns the names created and not deleted
\* or cleared since, each once, in the order of the creation that stored
\* each: a name deleted and created again is listed after the names that
\* stayed stored; the rest as stated.
C19_ListInInsertionOrder ==
  [][ /\ (last'.op = "listCheckpoints" /\ ListCheckpoints) =>
            /\ last'.list = cpLog.live
            /\ \A i, j \in 1..Len(last'.list) : last'.list[i] = last'.list[j] => i = j
      /\ DeleteAndList
    ]_vars

C19_Witness ==
  /\ last.op = "listCheckpoints"
  /\ last.list = <<"v2", "v1">>
  /\ cpLog.first = <<"v1", "v2">>

\* C21: a restoreCheckpoint(name) that returns true, followed at once by
\* undo, at whatever instant, gives a successful undo that puts every field
\* of the document back to what it was just before the restore and leaves
\* the undo sequence as it was just before the restore.
C21_RestoreIsUndoable ==
  [][ \A name \in Names :
        (last'.op = "restoreCheckpoint" /\ last'.ret = "true"
           /\ RestoreCheckpointOf(name)) =>
          \A t \in Instants :
            LET undone == undo(doc', undoStack', redoStack', checkpoints', t)
            IN  /\ undone.ret = "true"
                /\ undone.doc = doc
                /\ undone.undoStack = undoStack
                /\ undone.checkpoints = checkpoints
    ]_vars

C21_Witness ==
  /\ last.op = "restoreCheckpoint" /\ last.ret = "true"
  /\ Len(undoStack) >= 2
  /\ undo(doc, undoStack, redoStack, checkpoints, now).ret = "true"
  /\ undo(doc, undoStack, redoStack, checkpoints, now).doc.content # doc.content
  /\ undo(doc, undoStack, redoStack, checkpoints, now).doc # InitialDocument
  /\ Top(undoStack).state # undoStack[Len(undoStack) - 1].state

\* the executions whose signal is not aborted
LiveRuns(h) == {i \in 1..Len(h.runs) : ~h.runs[i].ab}

\* C22: after every step at most one execution of the hook has a signal
\* that is not aborted, and it is the latest one; a call of execute() leaves
\* every earlier execution with an aborted signal before the new one makes
\* its first request; an aborted signal stays aborted, and an execution
\* whose signal is aborted starts no further request.
C22_OneLiveExecution ==
  [][ /\ Cardinality(LiveRuns(hook')) <= 1
      /\ LiveRuns(hook') \subseteq {Len(hook'.runs)}
      /\ LiveRuns(hook') \subseteq {hook'.current}
      /\ \A i \in 1..Len(hook.runs) :
            /\ hook.runs[i].ab => hook'.runs[i].ab
            /\ hook'.runs[i].ab => hook'.runs[i].x.calls = hook.runs[i].x.calls
            /\ hook'.runs[i].x.wrapper = "fetchWithRetry"
      /\ Len(hook'.runs) >= Len(hook.runs)
      /\ Len(hook'.runs) > Len(hook.runs) =>
            /\ Len(hook'.runs) = Len(hook.runs) + 1
            /\ \A i \in 1..Len(hook.runs) : hook'.runs[i].ab
            /\ hook'.runs[Len(hook'.runs)].x.calls = 1
    ]_vars

C22_Witness ==
  /\ Len(hook.runs) = 2
  /\ hook.runs[1].ab
  /\ hook.runs[1].x.pc = "done"
  /\ hook.runs[1].x.calls = 2
  /\ hook.runs[1].x.waits = <<1000, 1000>>
  /\ hook.runs[1].x.error = AbortError
  /\ ~hook.runs[2].ab
  /\ hook.runs[2].x.calls = 3

====
